---- MODULE Spec2Model ----
(***************************************************************************)
(* A model of gitlogue's animation engine (src/animation.rs): the editor   *)
(* buffer, the generation of the step sequence from a commit, and the      *)
(* playback state machine driven by tick; of its syntax highlighter        *)
(* (src/syntax/mod.rs) and of its two panes (src/panes).                   *)
(*                                                                         *)
(* Encoding of Rust values:                                                *)
(*  - a String is a sequence of characters; a character is a TLA+ string   *)
(*    whose UTF-8 width is given by Utf8Len, so that byte indices (used by *)
(*    String::insert / String::remove / String::len) and character counts  *)
(*    (used by chars()) stay distinct;                                     *)
(*  - Vec indices are 0-based in the code and 1-based here: element i of   *)
(*    a Vec is s[i + 1];                                                   *)
(*  - an Instant is kept relative to "now": last_update and                *)
(*    cursor_blink_timer hold the milliseconds elapsed since the instant   *)
(*    they store (saturated at the only threshold they are compared with), *)
(*    pause_until holds the milliseconds left until the instant it stores  *)
(*    (0: reached), or None;                                               *)
(*  - a panic (process abort) sets aborted; nothing runs after it.         *)
(***************************************************************************)
EXTENDS Integers, Sequences, FiniteSets, TLC

VARIABLES buffer, state, steps, current_step, last_update, speed_ms,
          pause_until, cursor_visible, cursor_blink_timer, viewport_height,
          current_file_index, aborted, metadata, call,
          highlighter, terminal_lines, active_pane

vars == <<buffer, state, steps, current_step, last_update, speed_ms,
          pause_until, cursor_visible, cursor_blink_timer, viewport_height,
          current_file_index, aborted, metadata, call,
          highlighter, terminal_lines, active_pane>>

\* the state that no operation of src/animation.rs touches: the highlighter,
\* and the transcript and the active pane the renderers read from the engine
view_vars == <<highlighter, terminal_lines, active_pane>>

----------------------------------------------------------------------------
(* Bounds of the model *)

\* longest added line, in characters, of the generated commits
MaxText == 2
\* most lines an arbitrary step may grow the buffer to; such a step's line
\* index ranges over 0..MaxLines, one past the last line included
MaxLines == 2
\* most characters an arbitrary step may grow the buffer to, all lines
\* together; such a step's column ranges over 0..MaxChars
MaxChars == 2
\* longest text content handed to from_content by an arbitrary step
MaxContent == 3
\* most hunks of a generated file change
MaxHunks == 2
\* most files of a generated commit of several files
MaxFiles == 2
\* largest line number given to generate_cursor_movement
MaxMoveLine == 10
\* most captures the query matches on a parsed source
MaxCaptures == 2
\* most lines of the terminal transcript
MaxTranscript == 2

----------------------------------------------------------------------------
(* Program constants *)

BlinkMs == 500
FilePauseMs == 1000
BetweenFilesPauseMs == 2000
FinalPauseMs == 3000
HunkPauseMs == 1500
MovePauseMs == 50
MoveEndPauseMs == 300
DeletePauseMs == 300
AddPauseMs == 200
DefaultViewportHeight == 20

----------------------------------------------------------------------------
(* Characters and strings *)

LF == "\n"
CR == "\r"
\* one-byte characters and one two-byte character (U+00E9)
PlainChars == {"a"}
WideChars == {"U+00E9"}
TextChars == PlainChars \cup WideChars

Utf8Len(ch) == IF ch \in WideChars THEN 2 ELSE 1

Min(a, b) == IF a < b THEN a ELSE b
Max(a, b) == IF a > b THEN a ELSE b

\* all sequences over S of length at most n
SeqsUpTo(S, n) == UNION {[1..k -> S] : k \in 0..n}

RECURSIVE ByteLen(_)
\* String::len: the length in bytes
ByteLen(s) == IF s = <<>> THEN 0 ELSE Utf8Len(Head(s)) + ByteLen(Tail(s))

\* the number of characters that end at or before byte index idx, when idx
\* is a character boundary of s (0, the end, or the first byte of a
\* character); -1 otherwise
CharsBefore(s, idx) ==
    LET ks == {k \in 0..Len(s) : ByteLen(SubSeq(s, 1, k)) = idx}
    IN IF ks = {} THEN -1 ELSE CHOOSE k \in ks : TRUE

is_char_boundary(s, idx) == CharsBefore(s, idx) # -1

\* String::insert(idx, ch), defined when idx is a character boundary
StringInsert(s, idx, ch) ==
    LET k == CharsBefore(s, idx)
    IN SubSeq(s, 1, k) \o <<ch>> \o SubSeq(s, k + 1, Len(s))

\* String::remove(idx), defined when idx < len and a character boundary
StringRemove(s, idx) ==
    LET k == CharsBefore(s, idx)
    IN SubSeq(s, 1, k) \o SubSeq(s, k + 2, Len(s))

RECURSIVE str_lines(_)
\* str::lines: split after every "\n"; a piece that ends in "\n" loses it and
\* then one "\r" before it; the last piece, when it does not end in "\n", is
\* kept as it is (a "\r" ending it included); no piece follows a final "\n"
str_lines(s) ==
    IF s = <<>> THEN <<>>
    ELSE LET nl == {i \in 1..Len(s) : s[i] = LF}
         IN IF nl = {} THEN <<s>>
            ELSE LET k == CHOOSE i \in nl : \A j \in nl : i <= j
                     raw == SubSeq(s, 1, k - 1)
                     line == IF raw # <<>> /\ raw[Len(raw)] = CR
                             THEN SubSeq(raw, 1, Len(raw) - 1)
                             ELSE raw
                 IN <<line>> \o str_lines(SubSeq(s, k + 1, Len(s)))

RECURSIVE join(_)
\* [String]::join("\n")
join(ls) ==
    IF ls = <<>> THEN <<>>
    ELSE IF Len(ls) = 1 THEN ls[1]
    ELSE ls[1] \o <<LF>> \o join(Tail(ls))

\* Vec::resize(n, String::new()): truncate or pad with empty strings
resize(ls, n) ==
    IF n <= Len(ls) THEN SubSeq(ls, 1, n)
    ELSE ls \o [i \in 1..(n - Len(ls)) |-> <<>>]

----------------------------------------------------------------------------
(* EditorBuffer *)

new_buffer ==
    [lines |-> << <<>> >>, cursor_line |-> 0, cursor_col |-> 0, scroll_offset |-> 0]

\* from_content without the empty-content case
from_content_no_empty_case(content) ==
    [lines |-> str_lines(content),
     cursor_line |-> 0, cursor_col |-> 0, scroll_offset |-> 0]

from_content(content) ==
    [lines |-> IF content = <<>> THEN << <<>> >> ELSE str_lines(content),
     cursor_line |-> 0, cursor_col |-> 0, scroll_offset |-> 0]

\* String::insert panics unless col is a character boundary of the line
\* (after the resize)
insert_char_panics(b, line, col) ==
    ~is_char_boundary(resize(b.lines, Max(line + 1, Len(b.lines)))[line + 1], col)

insert_char(b, line, col, ch) ==
    LET ls == IF line >= Len(b.lines) THEN resize(b.lines, line + 1) ELSE b.lines
    IN [b EXCEPT !.lines = [ls EXCEPT ![line + 1] = StringInsert(@, col, ch)]]

\* String::remove panics when col, though below the byte length, is not a
\* character boundary
delete_char_panics(b, line, col) ==
    /\ line < Len(b.lines)
    /\ col < ByteLen(b.lines[line + 1])
    /\ ~is_char_boundary(b.lines[line + 1], col)

delete_char(b, line, col) ==
    IF line < Len(b.lines) /\ col < ByteLen(b.lines[line + 1])
    THEN [b EXCEPT !.lines[line + 1] = StringRemove(@, col)]
    ELSE b

insert_line(b, line, content) ==
    LET ls == IF line > Len(b.lines) THEN resize(b.lines, line) ELSE b.lines
    IN [b EXCEPT !.lines = SubSeq(ls, 1, line) \o <<content>>
                               \o SubSeq(ls, line + 1, Len(ls))]

\* delete_line without the refill of an emptied buffer
delete_line_no_refill(b, line) ==
    [b EXCEPT !.lines = IF line < Len(b.lines)
                        THEN SubSeq(b.lines, 1, line)
                             \o SubSeq(b.lines, line + 2, Len(b.lines))
                        ELSE b.lines]

delete_line(b, line) ==
    LET ls == IF line < Len(b.lines)
              THEN SubSeq(b.lines, 1, line) \o SubSeq(b.lines, line + 2, Len(b.lines))
              ELSE b.lines
    IN [b EXCEPT !.lines = IF ls = <<>> THEN << <<>> >> ELSE ls]

get_content(b) == join(b.lines)

----------------------------------------------------------------------------
(* Option values: None is the empty sequence, Some(x) a one-element one *)

None == <<>>
Some(x) == <<x>>

----------------------------------------------------------------------------
(* AnimationStep *)

InsertChar(line, col, ch) == [type |-> "InsertChar", line |-> line, col |-> col, ch |-> ch]
DeleteChar(line, col) == [type |-> "DeleteChar", line |-> line, col |-> col]
InsertLine(line, content) == [type |-> "InsertLine", line |-> line, content |-> content]
DeleteLine(line) == [type |-> "DeleteLine", line |-> line]
MoveCursor(line, col) == [type |-> "MoveCursor", line |-> line, col |-> col]
Pause(duration_ms) == [type |-> "Pause", duration_ms |-> duration_ms]
SwitchFile(file_index, content) ==
    [type |-> "SwitchFile", file_index |-> file_index, content |-> content]

----------------------------------------------------------------------------
(* Step generation *)

\* generate_cursor_movement whose upward range is (to_line + 1..=from_line).rev()
generate_cursor_movement_up_shifted(from_line, to_line) ==
    IF from_line = to_line THEN <<>>
    ELSE LET n == IF from_line < to_line THEN to_line - from_line
                  ELSE from_line - to_line
             visit(k) == IF from_line < to_line THEN from_line + k
                         ELSE from_line - k + 1
         IN [i \in 1..(2 * n) |->
                IF i % 2 = 1 THEN MoveCursor(visit((i + 1) \div 2), 0)
                ELSE Pause(MovePauseMs)]
            \o <<Pause(MoveEndPauseMs)>>

\* the steps generate_cursor_movement pushes (it returns to_line)
generate_cursor_movement(from_line, to_line) ==
    IF from_line = to_line THEN <<>>
    ELSE LET n == IF from_line < to_line THEN to_line - from_line
                  ELSE from_line - to_line
             \* the k-th line visited: (from_line + 1)..=to_line going down,
             \* (to_line..from_line).rev() going up
             visit(k) == IF from_line < to_line THEN from_line + k
                         ELSE from_line - k
         IN [i \in 1..(2 * n) |->
                IF i % 2 = 1 THEN MoveCursor(visit((i + 1) \div 2), 0)
                ELSE Pause(MovePauseMs)]
            \o <<Pause(MoveEndPauseMs)>>

\* the steps pushed for one line of a hunk
line_change_steps(line_change, current_old_line, current_new_line, cursor_line) ==
    CASE line_change.change_type = "Deletion" ->
           <<DeleteLine(current_old_line), Pause(DeletePauseMs)>>
      [] line_change.change_type = "Addition" ->
           <<InsertLine(current_new_line, <<>>)>>
           \o [k \in 1..Len(line_change.content) |->
                 InsertChar(current_new_line, k - 1, line_change.content[k])]
           \o <<Pause(AddPauseMs)>>
      [] line_change.change_type = "Context" ->
           IF current_new_line # cursor_line
           THEN <<MoveCursor(current_new_line, 0), Pause(MovePauseMs)>>
           ELSE <<>>

RECURSIVE hunk_loop(_, _, _, _, _, _)
\* the loop of generate_steps_for_hunk from line i of the hunk on
hunk_loop(lines, i, current_old_line, current_new_line, cursor_line, acc) ==
    IF i > Len(lines) THEN [steps |-> acc, cursor_line |-> cursor_line]
    ELSE LET lc == lines[i]
             pushed == acc \o line_change_steps(lc, current_old_line,
                                                current_new_line, cursor_line)
         IN CASE lc.change_type = "Deletion" ->
                   hunk_loop(lines, i + 1, current_old_line, current_new_line,
                             current_old_line, pushed)
              [] lc.change_type = "Addition" ->
                   hunk_loop(lines, i + 1, current_old_line + 1,
                             current_new_line + 1, current_new_line, pushed)
              [] lc.change_type = "Context" ->
                   hunk_loop(lines, i + 1, current_old_line + 1,
                             current_new_line + 1, current_new_line + 1, pushed)

\* [steps pushed, the final cursor line]
generate_steps_for_hunk(hunk, start_line) ==
    hunk_loop(hunk.lines, 1, hunk.old_start, hunk.old_start, start_line, <<>>)

RECURSIVE file_loop(_, _, _, _)
file_loop(hunks, i, current_cursor_line, acc) ==
    IF i > Len(hunks) THEN acc
    ELSE LET hunk == hunks[i]
             target_line == hunk.old_start
             move == generate_cursor_movement(current_cursor_line, target_line)
             h == generate_steps_for_hunk(hunk, target_line)
         IN file_loop(hunks, i + 1, h.cursor_line,
                      acc \o move \o h.steps \o <<Pause(HunkPauseMs)>>)

generate_steps_for_file(change) == file_loop(change.hunks, 1, 0, <<>>)

unwrap_or_default(opt) == IF opt = None THEN <<>> ELSE opt[1]

\* file_steps with the pause between files pushed after the last file too
file_steps_pause_after_last(changes, index) ==
    <<SwitchFile(index, unwrap_or_default(changes[index + 1].old_content)),
      Pause(FilePauseMs)>>
    \o generate_steps_for_file(changes[index + 1])
    \o (IF index < Len(changes) THEN <<Pause(BetweenFilesPauseMs)>> ELSE <<>>)

\* the steps load_commit pushes for the file at position index (0-based)
file_steps(changes, index) ==
    <<SwitchFile(index, unwrap_or_default(changes[index + 1].old_content)),
      Pause(FilePauseMs)>>
    \o generate_steps_for_file(changes[index + 1])
    \o (IF index < Len(changes) - 1 THEN <<Pause(BetweenFilesPauseMs)>> ELSE <<>>)

RECURSIVE commit_loop(_, _)
commit_loop(changes, index) ==
    IF index >= Len(changes) THEN <<>>
    ELSE file_steps(changes, index) \o commit_loop(changes, index + 1)

\* the step sequence load_commit builds
commit_steps(m) == commit_loop(m.changes, 0) \o <<Pause(FinalPauseMs)>>

\* the buffer load_commit leaves, given the buffer before the call
commit_buffer(m, b) ==
    IF m.changes = <<>> THEN b
    ELSE IF m.changes[1].old_content # None
         THEN from_content(m.changes[1].old_content[1])
         ELSE new_buffer

----------------------------------------------------------------------------
(* AnimationEngine: step execution *)

\* scroll_target without the near-the-bottom branch
scroll_target_no_bottom(cursor_line, total_lines, height) ==
    LET half_viewport == height \div 2
    IN IF cursor_line < half_viewport THEN 0
       ELSE Max(cursor_line - half_viewport, 0)

\* the scroll offset update_scroll assigns when viewport_height > 0
scroll_target(cursor_line, total_lines, height) ==
    LET half_viewport == height \div 2
    IN IF cursor_line < half_viewport THEN 0
       ELSE IF cursor_line + half_viewport >= total_lines
            THEN Max(total_lines - height, 0)
            ELSE Max(cursor_line - half_viewport, 0)

update_scroll(b, height) ==
    IF height = 0 THEN b
    ELSE [b EXCEPT !.scroll_offset = scroll_target(b.cursor_line, Len(b.lines), height)]

\* whether executing the step on buffer b panics
step_panics(b, step) ==
    CASE step.type = "InsertChar" -> insert_char_panics(b, step.line, step.col)
      [] step.type = "DeleteChar" -> delete_char_panics(b, step.line, step.col)
      [] OTHER -> FALSE

\* the match of execute_step on the buffer, before update_scroll
apply_step(b, step) ==
    CASE step.type = "InsertChar" ->
           [insert_char(b, step.line, step.col, step.ch)
              EXCEPT !.cursor_line = step.line, !.cursor_col = step.col + 1]
      [] step.type = "DeleteChar" ->
           [delete_char(b, step.line, step.col)
              EXCEPT !.cursor_line = step.line, !.cursor_col = step.col]
      [] step.type = "InsertLine" ->
           [insert_line(b, step.line, step.content)
              EXCEPT !.cursor_line = step.line, !.cursor_col = 0]
      [] step.type = "DeleteLine" ->
           [delete_line(b, step.line)
              EXCEPT !.cursor_line = step.line, !.cursor_col = 0]
      [] step.type = "MoveCursor" ->
           [b EXCEPT !.cursor_line = step.line, !.cursor_col = step.col]
      [] step.type = "Pause" -> b
      [] step.type = "SwitchFile" -> from_content(step.content)

\* execute_step on the engine; pause_before is pause_until as the caller
\* left it
execute_step(step, pause_before) ==
    IF step_panics(buffer, step)
    THEN /\ aborted' = TRUE
         /\ UNCHANGED <<buffer, current_file_index>>
         /\ pause_until' = pause_before
    ELSE /\ aborted' = FALSE
         /\ buffer' = update_scroll(apply_step(buffer, step), viewport_height)
         /\ current_file_index' = IF step.type = "SwitchFile" THEN step.file_index
                                  ELSE current_file_index
         /\ pause_until' = IF step.type = "Pause" THEN Some(step.duration_ms)
                           ELSE pause_before

----------------------------------------------------------------------------
(* Highlighter (syntax/mod.rs)                                              *)
(*                                                                          *)
(* A capture name is a sequence of pieces: a dot, or a run of characters    *)
(* other than the dot ("function.call" is <<"function", ".", "call">>).     *)
(* The syntax tree tree-sitter builds is kept as what the engine reads of   *)
(* it: the captures the compiled query matches, in the order the matches    *)
(* are delivered.                                                           *)

Dot == "."

\* capture_name.split('.').next(): the pieces before the first dot
base_name(capture_name) ==
    LET dots == {i \in 1..Len(capture_name) : capture_name[i] = Dot}
    IN IF dots = {} THEN capture_name
       ELSE SubSeq(capture_name, 1, (CHOOSE i \in dots : \A j \in dots : i <= j) - 1)

\* the match on base_name: Some(token type), or None where the code continues
token_type(base) ==
    IF Len(base) # 1 THEN None
    ELSE CASE base[1] \in {"annotation", "attribute", "decorator"} -> Some("Keyword")
           [] base[1] = "boolean" -> Some("Constant")
           [] base[1] = "character" -> Some("String")
           [] base[1] \in {"class", "constructor", "enum", "interface", "struct",
                           "trait"} -> Some("Type")
           [] base[1] = "comment" -> Some("Comment")
           [] base[1] \in {"conditional", "exception", "include", "repeat",
                           "storageclass"} -> Some("Keyword")
           [] base[1] = "constant" -> Some("Constant")
           [] base[1] = "delimiter" -> Some("Punctuation")
           [] base[1] = "escape" -> Some("Operator")
           [] base[1] = "field" -> Some("Property")
           [] base[1] = "float" -> Some("Number")
           [] base[1] = "function" -> Some("Function")
           [] base[1] = "identifier" -> Some("Variable")
           [] base[1] = "keyword" -> Some("Keyword")
           [] base[1] = "label" -> Some("Label")
           [] base[1] \in {"macro", "method"} -> Some("Function")
           [] base[1] \in {"module", "namespace"} -> Some("Type")
           [] base[1] = "number" -> Some("Number")
           [] base[1] = "operator" -> Some("Operator")
           [] base[1] = "parameter" -> Some("Parameter")
           [] base[1] = "property" -> Some("Property")
           [] base[1] = "punctuation" -> Some("Punctuation")
           [] base[1] = "regexp" -> Some("String")
           [] base[1] = "special" -> Some("Operator")
           [] base[1] = "string" -> Some("String")
           [] base[1] = "tag" -> Some("Type")
           [] base[1] = "text" -> Some("String")
           [] base[1] = "type" -> Some("Type")
           [] base[1] = "variable" -> Some("Variable")
           [] base[1] \in {"__name__", "_name", "_op", "_type", "embedded", "none",
                           "spell"} -> None
           [] OTHER -> None

Capture(name, start, end) == [name |-> name, start |-> start, end |-> end]
HighlightSpan(start, end, token) == [start |-> start, end |-> end, token_type |-> token]

RECURSIVE capture_spans(_)
\* the spans pushed by the loops over the matches and their captures
capture_spans(captures) ==
    IF captures = <<>> THEN <<>>
    ELSE LET capture == Head(captures)
             token == token_type(base_name(capture.name))
         IN (IF token = None THEN <<>>
             ELSE <<HighlightSpan(capture.start, capture.end, token[1])>>)
            \o capture_spans(Tail(captures))

\* highlight without the final sort
unsorted(spans) == spans

RECURSIVE sort_by_start(_)
\* spans.sort_by_key(|span| span.start): a stable sort, each span going
\* after the spans before it whose start is not larger
sort_by_start(spans) ==
    IF spans = <<>> THEN <<>>
    ELSE LET span == spans[Len(spans)]
             front == sort_by_start(SubSeq(spans, 1, Len(spans) - 1))
             k == Cardinality({i \in 1..Len(front) : front[i].start <= span.start})
         IN SubSeq(front, 1, k) \o <<span>> \o SubSeq(front, k + 1, Len(front))

\* Highlighter::new
new_highlighter ==
    [parser |-> None, language |-> None, query |-> None, query_source |-> None,
     cached_tree |-> None, cached_source |-> <<>>]

\* the language registry: the grammar and query text for a path, by its
\* extension
get_language(path) ==
    CASE path = "main.rs" -> Some("rust")
      [] path = "app.py" -> Some("python")
      [] OTHER -> None

\* set_language_from_path that returns at a failure without clearing
set_language_keeping_previous(h, path, parser_ok, query_ok) ==
    LET found == get_language(path)
    IN IF found # None /\ parser_ok /\ query_ok
       THEN [h |-> [parser |-> found, language |-> found, query |-> found,
                    query_source |-> found, cached_tree |-> None,
                    cached_source |-> <<>>],
             ret |-> TRUE]
       ELSE [h |-> [h EXCEPT !.parser = IF found # None /\ parser_ok THEN found ELSE @],
             ret |-> FALSE]

\* set_language_from_path: [the highlighter after the call, the result].
\* parser_ok and query_ok are the outcomes of Parser::set_language and
\* Query::new; a compiled query is named by its language.
set_language_from_path(h, path, parser_ok, query_ok) ==
    LET found == get_language(path)
    IN IF found # None /\ parser_ok /\ query_ok
       THEN [h |-> [parser |-> found, language |-> found, query |-> found,
                    query_source |-> found, cached_tree |-> None,
                    cached_source |-> <<>>],
             ret |-> TRUE]
       ELSE [h |-> [parser |-> IF found # None /\ parser_ok THEN found ELSE h.parser,
                    language |-> None, query |-> None, query_source |-> None,
                    cached_tree |-> None, cached_source |-> <<>>],
             ret |-> FALSE]

\* highlight: [the highlighter after the call, the spans returned]. tree is
\* the result of Parser::parse, None when the parse fails.
highlight(h, source, tree) ==
    IF h.query = None \/ tree = None THEN [h |-> h, ret |-> <<>>]
    ELSE [h |-> [h EXCEPT !.cached_tree = tree, !.cached_source = source],
          ret |-> sort_by_start(capture_spans(tree[1]))]

----------------------------------------------------------------------------
(* Panes (panes/editor.rs, panes/terminal.rs)                               *)
(*                                                                          *)
(* A rendered line is a sequence of spans, a span a text with the name of   *)
(* its style.                                                               *)

Span(text, style) == [text |-> text, style |-> style]

\* str::starts_with
starts_with(line, prefix) ==
    Len(line) >= Len(prefix) /\ SubSeq(line, 1, Len(prefix)) = prefix

\* the prefix of a command line of the transcript
CommandPrefix == <<"~", " ">>

\* the lines of TerminalPane::render with the cursor on every command line
TerminalPane_render_cursor_everywhere(area_height, lines, visible, pane) ==
    LET content_height == Max(area_height - 2, 0)
        total_lines == Len(lines)
        start_idx == Max(total_lines - content_height, 0)
    IN IF total_lines > 0
       THEN [idx \in 1..(total_lines - start_idx) |->
               LET line == lines[start_idx + idx]
                   show_cursor == visible /\ pane = "Terminal"
               IN IF starts_with(line, CommandPrefix)
                  THEN IF show_cursor
                       THEN <<Span(line, "terminal_command"),
                              Span(<<" ">>, "terminal_cursor")>>
                       ELSE <<Span(line, "terminal_command")>>
                  ELSE <<Span(line, "terminal_output")>>]
       ELSE << <<Span(<<>>, "raw")>> >>

\* the lines TerminalPane::render hands to the widget, for a region of
\* area_height rows
TerminalPane_render(area_height, lines, visible, pane) ==
    LET content_height == Max(area_height - 2, 0)
        total_lines == Len(lines)
        start_idx == Max(total_lines - content_height, 0)
    IN IF total_lines > 0
       THEN [idx \in 1..(total_lines - start_idx) |->
               LET line == lines[start_idx + idx]
                   is_last_line == start_idx + (idx - 1) = total_lines - 1
                   show_cursor == is_last_line /\ visible /\ pane = "Terminal"
               IN IF starts_with(line, CommandPrefix)
                  THEN IF show_cursor
                       THEN <<Span(line, "terminal_command"),
                              Span(<<" ">>, "terminal_cursor")>>
                       ELSE <<Span(line, "terminal_command")>>
                  ELSE <<Span(line, "terminal_output")>>]
       ELSE << <<Span(<<>>, "raw")>> >>

DigitChars == <<"0", "1", "2", "3", "4", "5", "6", "7", "8", "9">>

RECURSIVE Digits(_)
\* format!("{}", n): the decimal digits of n
Digits(n) ==
    IF n < 10 THEN <<DigitChars[n + 1]>>
    ELSE Digits(n \div 10) \o <<DigitChars[(n % 10) + 1]>>

\* format!("{:>width$} ", n): right-aligned in width columns, then a space
line_num_str(n, width) ==
    [i \in 1..Max(width - Len(Digits(n)), 0) |-> " "] \o Digits(n) \o <<" ">>

\* the separator after the line number: U+2502 and a space
Separator == <<"U+2502", " ">>

\* the spans of the text of the cursor row, the cursor shown
cursor_row_spans(chars, cursor_col) ==
    (IF cursor_col > 0 /\ cursor_col <= Len(chars)
     THEN <<Span(SubSeq(chars, 1, cursor_col), "raw")>> ELSE <<>>)
    \o <<Span(<<IF cursor_col < Len(chars) THEN chars[cursor_col + 1] ELSE " ">>,
              "cursor")>>
    \o (IF cursor_col + 1 < Len(chars)
        THEN <<Span(SubSeq(chars, cursor_col + 2, Len(chars)), "raw")>> ELSE <<>>)

\* the lines of EditorPane::render with the cursor drawn whichever pane is
\* active
EditorPane_render_any_pane(area_height, b, visible, pane) ==
    LET content_height == Max(area_height - 2, 0)
        total_lines == Len(b.lines)
        line_num_width == Max(Len(Digits(total_lines)), 3)
        rows == Min(content_height, Max(total_lines - b.scroll_offset, 0))
    IN [idx \in 1..rows |->
          LET line_num == b.scroll_offset + (idx - 1)
              line_content == b.lines[line_num + 1]
              is_cursor_line == line_num = b.cursor_line
          IN <<Span(line_num_str(line_num + 1, line_num_width),
                    IF is_cursor_line THEN "line_number_cursor" ELSE "line_number"),
               Span(Separator, "separator")>>
             \o (IF is_cursor_line /\ visible
                 THEN cursor_row_spans(line_content, b.cursor_col)
                 ELSE <<Span(line_content, "raw")>>)]

\* the lines EditorPane::render hands to the widget, for a region of
\* area_height rows
EditorPane_render(area_height, b, visible, pane) ==
    LET content_height == Max(area_height - 2, 0)
        total_lines == Len(b.lines)
        line_num_width == Max(Len(Digits(total_lines)), 3)
        rows == Min(content_height, Max(total_lines - b.scroll_offset, 0))
    IN [idx \in 1..rows |->
          LET line_num == b.scroll_offset + (idx - 1)
              line_content == b.lines[line_num + 1]
              is_cursor_line == line_num = b.cursor_line
          IN <<Span(line_num_str(line_num + 1, line_num_width),
                    IF is_cursor_line THEN "line_number_cursor" ELSE "line_number"),
               Span(Separator, "separator")>>
             \o (IF is_cursor_line /\ visible /\ pane = "Editor"
                 THEN cursor_row_spans(line_content, b.cursor_col)
                 ELSE <<Span(line_content, "raw")>>)]

----------------------------------------------------------------------------
(* AnimationEngine: operations *)

Called(op, ret, arg) == [op |-> op, ret |-> ret, arg |-> arg]

\* AnimationEngine::new(speed); beside the engine, the program starts with
\* a Highlighter::new(), an empty transcript and the editor pane active
New(speed) ==
    /\ highlighter = new_highlighter
    /\ terminal_lines = <<>>
    /\ active_pane = "Editor"
    /\ buffer = new_buffer
    /\ state = "Idle"
    /\ steps = <<>>
    /\ current_step = 0
    /\ last_update = 0
    /\ speed_ms = speed
    /\ pause_until = None
    /\ cursor_visible = TRUE
    /\ cursor_blink_timer = 0
    /\ viewport_height = DefaultViewportHeight
    /\ current_file_index = 0
    /\ aborted = FALSE
    /\ metadata = None
    /\ call = Called("new", FALSE, <<>>)

SetViewportHeight(height) ==
    /\ ~aborted
    /\ viewport_height' = height
    /\ call' = Called("set_viewport_height", FALSE, <<>>)
    /\ UNCHANGED <<buffer, state, steps, current_step, last_update, speed_ms,
                   pause_until, cursor_visible, cursor_blink_timer,
                   current_file_index, aborted, metadata>>
    /\ UNCHANGED view_vars

LoadCommit(m) ==
    /\ ~aborted
    /\ steps' = commit_steps(m)
    /\ current_step' = 0
    /\ state' = "Playing"
    /\ current_file_index' = 0
    /\ buffer' = commit_buffer(m, buffer)
    /\ metadata' = Some(m)
    /\ call' = Called("load_commit", FALSE, <<>>)
    /\ UNCHANGED <<last_update, speed_ms, pause_until, cursor_visible,
                   cursor_blink_timer, viewport_height, aborted>>
    /\ UNCHANGED view_vars

\* dt milliseconds pass between two calls of the driver loop
Elapse(dt) ==
    /\ ~aborted
    /\ last_update' = Min(last_update + dt, speed_ms)
    /\ cursor_blink_timer' = Min(cursor_blink_timer + dt, BlinkMs)
    /\ pause_until' = IF pause_until = None THEN None
                      ELSE Some(Max(pause_until[1] - dt, 0))
    /\ call' = Called("elapse", FALSE, <<>>)
    /\ UNCHANGED <<buffer, state, steps, current_step, speed_ms, cursor_visible,
                   viewport_height, current_file_index, aborted, metadata>>
    /\ UNCHANGED view_vars

\* tick's test of the state, as a test for Finished only
stopped_if_finished == state = "Finished"

\* tick's test of the state: no step is due unless Playing
not_playing == state # "Playing"

\* tick's blink test, made only while Playing
blink_due_when_playing == state = "Playing" /\ cursor_blink_timer >= BlinkMs

\* tick's blink test: cursor_blink_timer.elapsed() >= 500 ms
blink_due == cursor_blink_timer >= BlinkMs

\* tick's test of the pause, with the comparison dropped
pause_pending_never == FALSE

\* tick's test of the pause: Some(pause_until) with now < pause_until
pause_pending == pause_until # None /\ pause_until[1] > 0

\* tick's test of the step interval, never holding a step back
too_early_never == FALSE

\* tick's test of the step interval: last_update.elapsed() < speed_ms
too_early == last_update < speed_ms

\* the step cursor after an executed step, skipping a step
advance_skipping(index) == index + 2

\* the step cursor after an executed step: current_step += 1
advance(index) == index + 1

Tick ==
    /\ ~aborted
    /\ cursor_visible' = IF blink_due THEN ~cursor_visible ELSE cursor_visible
    /\ cursor_blink_timer' = IF blink_due THEN 0 ELSE cursor_blink_timer
    /\ IF pause_pending
       THEN /\ call' = Called("tick", TRUE, <<>>)
            /\ UNCHANGED <<buffer, state, current_step, last_update,
                           pause_until, current_file_index, aborted>>
       ELSE IF not_playing \/ too_early
       THEN /\ pause_until' = None
            /\ call' = Called("tick", FALSE, <<>>)
            /\ UNCHANGED <<buffer, state, current_step, last_update,
                           current_file_index, aborted>>
       ELSE IF current_step >= Len(steps)
       THEN /\ state' = "Finished"
            /\ pause_until' = None
            /\ call' = Called("tick", FALSE, <<>>)
            /\ UNCHANGED <<buffer, current_step, last_update,
                           current_file_index, aborted>>
       ELSE /\ execute_step(steps[current_step + 1], None)
            /\ current_step' = IF aborted' THEN current_step
                               ELSE advance(current_step)
            /\ last_update' = IF aborted' THEN last_update ELSE 0
            /\ call' = Called("tick", ~aborted', <<steps[current_step + 1]>>)
            /\ UNCHANGED state
    /\ UNCHANGED <<steps, speed_ms, viewport_height, metadata>>
    /\ UNCHANGED view_vars

\* is_finished as "every step has been executed"
is_finished_when_consumed == current_step >= Len(steps)

is_finished == state = "Finished"

\* the driver suspends or resumes playback by writing the public state field
TogglePause ==
    /\ ~aborted
    /\ state \in {"Playing", "Paused"}
    /\ state' = IF state = "Playing" THEN "Paused" ELSE "Playing"
    /\ call' = Called("toggle_pause", FALSE, <<>>)
    /\ UNCHANGED <<buffer, steps, current_step, last_update, speed_ms, pause_until,
                   cursor_visible, cursor_blink_timer, viewport_height,
                   current_file_index, aborted, metadata>>
    /\ UNCHANGED view_vars

----------------------------------------------------------------------------
(* SpecStep: execute_step applied to arbitrary steps *)

\* viewport heights the rendering layer sets: none, smaller and larger than
\* the buffers of the model
Heights == {0, 1, DefaultViewportHeight}

\* file contents an arbitrary switch-to-file step carries
SwitchContents == {<<>>, <<LF>>, <<"a">>, <<"a", LF, "a", LF, "a">>}

ArbSteps ==
    {InsertChar(l, c, ch) : l \in 0..MaxLines, c \in 0..MaxChars, ch \in TextChars}
    \cup {DeleteChar(l, c) : l \in 0..MaxLines, c \in 0..MaxChars}
    \cup {InsertLine(l, t) : l \in 0..MaxLines, t \in {<<>>, <<"a">>}}
    \cup {DeleteLine(l) : l \in 0..MaxLines}
    \cup {MoveCursor(l, c) : l \in 0..MaxLines, c \in 0..MaxChars}
    \cup {Pause(MovePauseMs)}
    \cup {SwitchFile(0, t) : t \in SwitchContents}

RECURSIVE TotalChars(_)
TotalChars(ls) == IF ls = <<>> THEN 0 ELSE Len(Head(ls)) + TotalChars(Tail(ls))

\* the model's cap on what a step may grow the buffer to
WithinCaps(b, step) ==
    CASE step.type = "InsertChar" ->
           /\ step.line < Max(Len(b.lines), MaxLines)
           /\ TotalChars(b.lines) < MaxChars
      [] step.type = "InsertLine" ->
           /\ Max(Len(b.lines), step.line) < MaxLines
           /\ TotalChars(b.lines) + Len(step.content) <= MaxChars
      [] OTHER -> TRUE

ExecuteStep(step) ==
    /\ ~aborted
    /\ WithinCaps(buffer, step)
    /\ execute_step(step, pause_until)
    /\ call' = Called("execute_step", FALSE, <<step.type>>)
    /\ UNCHANGED <<state, steps, current_step, last_update, speed_ms,
                   cursor_visible, cursor_blink_timer, viewport_height, metadata>>
    /\ UNCHANGED view_vars

InitStep == New(0)

NextStep ==
    \/ \E step \in ArbSteps : ExecuteStep(step)
    \/ \E h \in Heights : SetViewportHeight(h)

SpecStep == InitStep /\ [][NextStep]_vars

----------------------------------------------------------------------------
(* SpecPure: generate_cursor_movement and from_content applied to arbitrary *)
(* inputs                                                                   *)

Contents == SeqsUpTo({"a", LF, CR}, MaxContent)

GenerateCursorMovement(from_line, to_line) ==
    /\ call.op = "new"
    /\ steps' = steps \o generate_cursor_movement(from_line, to_line)
    /\ call' = Called("generate_cursor_movement", FALSE, <<from_line, to_line>>)
    /\ UNCHANGED <<buffer, state, current_step, last_update, speed_ms, pause_until,
                   cursor_visible, cursor_blink_timer, viewport_height,
                   current_file_index, aborted, metadata>>
    /\ UNCHANGED view_vars

FromContent(content) ==
    /\ call.op = "new"
    /\ buffer' = from_content(content)
    /\ call' = Called("from_content", FALSE, <<content>>)
    /\ UNCHANGED <<state, steps, current_step, last_update, speed_ms, pause_until,
                   cursor_visible, cursor_blink_timer, viewport_height,
                   current_file_index, aborted, metadata>>
    /\ UNCHANGED view_vars

InitPure == New(0)

NextPure ==
    \/ \E from_line \in 0..MaxMoveLine, to_line \in 0..MaxMoveLine :
          GenerateCursorMovement(from_line, to_line)
    \/ \E content \in Contents : FromContent(content)

SpecPure == InitPure /\ [][NextPure]_vars

----------------------------------------------------------------------------
(* CommitMetadata, FileChange, DiffHunk, LineChange (crate::git), as the    *)
(* engine reads them: old_start is used as a 0-based buffer line index, and *)
(* the content of a line change is read for additions only                  *)

Addition(text) == [change_type |-> "Addition", content |-> text]
Deletion == [change_type |-> "Deletion", content |-> <<>>]
Context == [change_type |-> "Context", content |-> <<>>]
Hunk(old_start, lines) == [old_start |-> old_start, lines |-> lines]
FileChange(old_content, hunks) == [old_content |-> old_content, hunks |-> hunks]
Commit(changes) == [changes |-> changes]

\* the pre-change content of the files that exist before the commit
OldText == <<"b", LF, "c">>

Texts == SeqsUpTo(TextChars, MaxText)

\* one file, one hunk, one addition line, in a new or an existing file
OneAdditionCommits ==
    {Commit(<<FileChange(None, <<Hunk(0, <<Addition(t)>>)>>)>>) : t \in Texts}
    \cup {Commit(<<FileChange(Some(OldText), <<Hunk(s, <<Addition(t)>>)>>)>>) :
            s \in 0..2, t \in Texts}

\* files with deletions only
DeletionFiles ==
    {FileChange(Some(OldText), <<Hunk(0, <<Deletion>>)>>),
     FileChange(Some(OldText), <<Hunk(1, <<Deletion>>)>>),
     FileChange(Some(OldText), <<Hunk(0, <<Deletion, Deletion>>)>>)}

AdditionRuns == {<<Addition(<<"a">>)>>, <<Addition(<<"a">>), Addition(<<>>)>>}

\* hunks of additions at increasing lines of the pre-change file
AdditionHunkSeqs ==
    {hs \in SeqsUpTo({Hunk(s, r) : s \in 0..2, r \in AdditionRuns}, MaxHunks) :
        /\ hs # <<>>
        /\ \A i \in 1..(Len(hs) - 1) : hs[i].old_start < hs[i + 1].old_start}

\* files with additions only
AdditionFiles ==
    {FileChange(None, <<Hunk(0, r)>>) : r \in AdditionRuns}
    \cup {FileChange(Some(OldText), hs) : hs \in AdditionHunkSeqs}

TwoFileCommits == {Commit(<<A, B>>) : A \in DeletionFiles, B \in AdditionFiles}

\* files of every shape: no hunk, a hunk mixing the three kinds of line, two
\* hunks (the second one above the line the first one ends at)
ShapeFiles ==
    {FileChange(Some(OldText), <<>>),
     FileChange(Some(OldText), <<Hunk(0, <<Context, Deletion, Addition(<<"a">>)>>)>>),
     FileChange(None, <<Hunk(2, <<Addition(<<>>), Context>>), Hunk(0, <<Deletion>>)>>)}

ShapeCommits == {Commit(fs) : fs \in SeqsUpTo(ShapeFiles, MaxFiles)}

PlayCommits == OneAdditionCommits \cup TwoFileCommits \cup ShapeCommits

----------------------------------------------------------------------------
(* SpecPlay: commits of every family, each loaded into a fresh engine or    *)
(* once the previous playback has finished (Spec loads in every state), and *)
(* played by ticks with waits that no timer outlasts                        *)

\* a wait no timer outlasts
LongWait == FinalPauseMs

InitPlay == New(0)

LoadNext(m) ==
    /\ state \in {"Idle", "Finished"}
    /\ LoadCommit(m)

NextPlay ==
    \/ \E m \in PlayCommits : LoadNext(m)
    \/ Elapse(LongWait)
    \/ Tick

SpecPlay == InitPlay /\ [][NextPlay]_vars

----------------------------------------------------------------------------
(* Spec: the engine under its driver, with time passing in small and large  *)
(* amounts between the calls                                                *)

Speeds == {0, 200}
Waits == {250, LongWait}
SmallHeights == {1}

SmallCommits ==
    {Commit(<<>>),
     Commit(<<FileChange(None, <<Hunk(0, <<Addition(<<"a">>)>>)>>)>>),
     Commit(<<FileChange(Some(OldText), <<Hunk(0, <<Deletion>>)>>),
              FileChange(Some(OldText), <<Hunk(1, <<Addition(<<"a">>)>>)>>)>>)}

Init == \E speed \in Speeds : New(speed)

Next ==
    \/ \E m \in SmallCommits : LoadCommit(m)
    \/ \E h \in SmallHeights : SetViewportHeight(h)
    \/ \E dt \in Waits : Elapse(dt)
    \/ Tick
    \/ TogglePause

Spec == Init /\ [][Next]_vars

----------------------------------------------------------------------------
(* SpecHighlight: a highlighter given paths and source texts, with every    *)
(* outcome of the tree-sitter calls                                         *)

\* the fields of the engine, which the highlighter and the renderers leave
\* alone
engine_vars == <<buffer, state, steps, current_step, last_update, speed_ms,
                 pause_until, cursor_visible, cursor_blink_timer,
                 viewport_height, current_file_index, aborted, metadata>>

Paths == {"main.rs", "app.py", "notes.txt"}

Sources == {<<>>, <<"a", "a">>}

\* capture names: a dotted name of the table, a plain one, one of the skip
\* set
CaptureNames == {<<"function", Dot, "call">>, <<"comment">>, <<"embedded">>}

\* the captures a query can deliver for a source: any capture name on any
\* one-byte node of it
Captures(source) ==
    {Capture(name, start, start + 1) :
        name \in CaptureNames, start \in 0..(ByteLen(source) - 1)}

\* the results of Parser::parse for a source: None, or a tree with up to
\* MaxCaptures captures in any order
Trees(source) ==
    {None} \cup {Some(captures) : captures \in SeqsUpTo(Captures(source), MaxCaptures)}

SetLanguageFromPath(path, parser_ok, query_ok) ==
    LET r == set_language_from_path(highlighter, path, parser_ok, query_ok)
    IN /\ highlighter' = r.h
       /\ call' = Called("set_language_from_path", r.ret,
                         <<path, parser_ok, query_ok>>)
       /\ UNCHANGED <<engine_vars, terminal_lines, active_pane>>

Highlight(source, tree) ==
    LET r == highlight(highlighter, source, tree)
    IN /\ highlighter' = r.h
       /\ call' = Called("highlight", r.ret, <<source, tree>>)
       /\ UNCHANGED <<engine_vars, terminal_lines, active_pane>>

InitHighlight == New(0)

NextHighlight ==
    \/ \E path \in Paths, parser_ok \in BOOLEAN, query_ok \in BOOLEAN :
          SetLanguageFromPath(path, parser_ok, query_ok)
    \/ \E source \in Sources : \E tree \in Trees(source) : Highlight(source, tree)

SpecHighlight == InitHighlight /\ [][NextHighlight]_vars

----------------------------------------------------------------------------
(* SpecPane: the two panes drawn from an engine whose buffer, cursor,       *)
(* transcript and active pane vary                                          *)

\* transcript lines: a command, an output line, and a line that only begins
\* like a command
TranscriptLines == {<<"~", " ", "l">>, <<"o">>, <<"~">>}

\* the heights of the region a pane is given: no content row, one, two
AreaHeights == {1, 3, 4}

\* steps that set the buffer and the cursor the editor pane draws
PaneSteps ==
    {SwitchFile(0, <<"U+00E9", "a">>), SwitchFile(0, <<"a", LF, "a">>)}
    \cup {MoveCursor(l, c) : l \in 0..1, c \in 0..(MaxChars + 1)}

\* the engine appends a line to the transcript
PushTerminalLine(line) ==
    /\ ~aborted
    /\ Len(terminal_lines) < MaxTranscript
    /\ terminal_lines' = Append(terminal_lines, line)
    /\ call' = Called("push_terminal_line", FALSE, <<>>)
    /\ UNCHANGED <<engine_vars, highlighter, active_pane>>

\* the driver moves the focus to the other pane
SwitchPane ==
    /\ ~aborted
    /\ active_pane' = IF active_pane = "Editor" THEN "Terminal" ELSE "Editor"
    /\ call' = Called("switch_pane", FALSE, <<>>)
    /\ UNCHANGED <<engine_vars, highlighter, terminal_lines>>

\* one frame: both panes rendered from the engine, each into a region of
\* area_height rows
Draw(area_height) ==
    /\ ~aborted
    /\ call' = Called("draw",
                      [editor |-> EditorPane_render(area_height, buffer,
                                                    cursor_visible, active_pane),
                       terminal |-> TerminalPane_render(area_height, terminal_lines,
                                                        cursor_visible, active_pane)],
                      <<area_height>>)
    /\ UNCHANGED <<engine_vars, highlighter, terminal_lines, active_pane>>

InitPane == New(0)

NextPane ==
    \/ \E step \in PaneSteps : ExecuteStep(step)
    \/ \E h \in SmallHeights : SetViewportHeight(h)
    \/ Elapse(LongWait)
    \/ Tick
    \/ \E line \in TranscriptLines : PushTerminalLine(line)
    \/ SwitchPane
    \/ \E area_height \in AreaHeights : Draw(area_height)

SpecPane == InitPane /\ [][NextPane]_vars

----------------------------------------------------------------------------
(* Claims about the editor buffer and the pure generators *)

\* C2 as stated: from_content followed by get_content gives back any
\* non-empty content; empty content gives a single empty line.
C2_RoundTrip ==
    call.op = "from_content" =>
        IF call.arg[1] # <<>> THEN get_content(buffer) = call.arg[1]
        ELSE buffer.lines = << <<>> >>

\* a content str::lines gives back unchanged under join: it does not end
\* with a newline and has no carriage return right before a newline
NoLostTerminator(content) ==
    /\ content[Len(content)] # LF
    /\ \A i \in 1..(Len(content) - 1) : ~(content[i] = CR /\ content[i + 1] = LF)

\* C2 amended: from_content followed by get_content gives back every
\* non-empty content that does not end with a newline and has no carriage
\* return right before a newline; empty content gives a single empty line.
C2_RoundTripAmended ==
    call.op = "from_content" =>
        IF call.arg[1] # <<>>
        THEN NoLostTerminator(call.arg[1]) => get_content(buffer) = call.arg[1]
        ELSE buffer.lines = << <<>> >>

\* a multi-line content has been split and joins back to itself
C2_Witness ==
    /\ call.op = "from_content"
    /\ call.arg[1] = <<"a", LF, "a">>
    /\ buffer.lines = << <<"a">>, <<"a">> >>
    /\ get_content(buffer) = call.arg[1]

\* C3: the buffer always holds at least one line, after construction and
\* after every insert_char, delete_char, insert_line and delete_line, and
\* deleting the only line of a buffer leaves exactly one empty line.
C3_NeverEmpty ==
    /\ Len(buffer.lines) >= 1
    /\ [][/\ Len(buffer'.lines) >= 1
          /\ (/\ call'.op = "execute_step"
              /\ call'.arg = <<"DeleteLine">>
              /\ buffer'.cursor_line = 0
              /\ Len(buffer.lines) = 1
              /\ ~aborted') => buffer'.lines = << <<>> >>]_vars

\* a delete-line step at line 0 has left exactly one empty line
C3_Witness ==
    /\ call.op = "execute_step"
    /\ call.arg = <<"DeleteLine">>
    /\ buffer.lines = << <<>> >>
    /\ buffer.cursor_line = 0
    /\ viewport_height = 1

\* C6: generate_cursor_movement emits nothing for equal lines; otherwise one
\* move-cursor step to column 0 per line after from_line up to to_line in
\* the direction of travel, each followed by a 50 ms pause, then one 300 ms
\* pause.
C6_CursorMovement ==
    /\ generate_cursor_movement(2, 5)
         = <<MoveCursor(3, 0), Pause(50), MoveCursor(4, 0), Pause(50),
             MoveCursor(5, 0), Pause(50), Pause(300)>>
    /\ call.op = "generate_cursor_movement" =>
        LET from_line == call.arg[1]
            to_line == call.arg[2]
            n == IF from_line < to_line THEN to_line - from_line
                 ELSE from_line - to_line
            dir == IF from_line < to_line THEN 1 ELSE -1
        IN IF n = 0 THEN steps = <<>>
           ELSE /\ Len(steps) = 2 * n + 1
                /\ \A k \in 1..n :
                     /\ steps[2 * k - 1] = MoveCursor(from_line + dir * k, 0)
                     /\ steps[2 * k] = Pause(50)
                /\ steps[2 * n - 1].line = to_line
                /\ steps[2 * n + 1] = Pause(300)
                /\ Cardinality({i \in 1..Len(steps) : steps[i].type = "MoveCursor"}) = n

\* the movement from line 5 up to line 2 has been generated
C6_Witness ==
    /\ call.op = "generate_cursor_movement"
    /\ call.arg = <<5, 2>>
    /\ steps = <<MoveCursor(4, 0), Pause(50), MoveCursor(3, 0), Pause(50),
                 MoveCursor(2, 0), Pause(50), Pause(300)>>

\* the scroll offset the specification gives for a cursor line, a line count
\* and a viewport height
SpecScroll(cursor_line, total_lines, height) ==
    IF cursor_line < height \div 2 THEN 0
    ELSE IF cursor_line + height \div 2 >= total_lines
         THEN Max(0, total_lines - height)
         ELSE cursor_line - height \div 2

\* C7 as stated: after every executed step the scroll offset is the
\* specification's, whatever the viewport height.
C7_Scroll ==
    (call.op = "execute_step" /\ ~aborted) =>
        buffer.scroll_offset
          = SpecScroll(buffer.cursor_line, Len(buffer.lines), viewport_height)

\* C7 amended: after every executed step, when the viewport height is not 0,
\* the scroll offset is the specification's; for height 20 and 100 lines,
\* cursor 5 gives 0, cursor 50 gives 40 and cursor 95 gives 80.
C7_ScrollAmended ==
    /\ update_scroll([new_buffer EXCEPT !.lines = [i \in 1..100 |-> <<>>],
                                        !.cursor_line = 5], 20).scroll_offset = 0
    /\ update_scroll([new_buffer EXCEPT !.lines = [i \in 1..100 |-> <<>>],
                                        !.cursor_line = 50], 20).scroll_offset = 40
    /\ update_scroll([new_buffer EXCEPT !.lines = [i \in 1..100 |-> <<>>],
                                        !.cursor_line = 95], 20).scroll_offset = 80
    /\ (call.op = "execute_step" /\ ~aborted /\ viewport_height > 0) =>
          buffer.scroll_offset
            = SpecScroll(buffer.cursor_line, Len(buffer.lines), viewport_height)

\* a step has scrolled a three-line buffer to put the cursor line first in
\* a viewport of height 1
C7_Witness ==
    /\ call.op = "execute_step"
    /\ ~aborted
    /\ viewport_height = 1
    /\ Len(buffer.lines) = 3
    /\ buffer.cursor_line = 1
    /\ buffer.scroll_offset = 1

\* C9 as stated: executing a step never aborts, whatever its indices.
C9_NeverAborts == ~aborted

----------------------------------------------------------------------------
(* Claims about the generated step sequence and its playback *)

IsPause(step, ms) == step.type = "Pause" /\ step.duration_ms = ms
PauseCount(ms) == Cardinality({i \in 1..Len(steps) : IsPause(steps[i], ms)})
KindCount(kind) == Cardinality({i \in 1..Len(steps) : steps[i].type = kind})

RECURSIVE HunkCount(_)
HunkCount(changes) ==
    IF changes = <<>> THEN 0 ELSE Len(Head(changes).hunks) + HunkCount(Tail(changes))

\* what C8 says of every pause but the 2000 ms ones
C8_OtherPauses(m) ==
    /\ PauseCount(1500) = HunkCount(m.changes)
    /\ \A i \in 1..Len(steps) : IsPause(steps[i], 1500) => steps[i + 1].type # "SwitchFile"
    /\ KindCount("SwitchFile") = Len(m.changes)
    /\ PauseCount(1000) = Len(m.changes)
    /\ \A i \in 1..Len(steps) :
         steps[i].type = "SwitchFile" => IsPause(steps[i + 1], 1000)
    /\ PauseCount(3000) = 1
    /\ IsPause(steps[Len(steps)], 3000)

\* C8 as stated: for a commit of F files the sequence holds one 1500 ms pause
\* per hunk, exactly F - 1 pauses of 2000 ms, one 1000 ms pause right after
\* each switch-to-file step, and one 3000 ms pause, its last step.
C8_Pauses ==
    metadata # None =>
        /\ C8_OtherPauses(metadata[1])
        /\ PauseCount(2000) = Len(metadata[1].changes) - 1

\* C8 amended: as stated, for a commit of at least one file; a commit of no
\* file has no 2000 ms pause. Every 2000 ms pause is followed by the next
\* file's switch-to-file step.
C8_PausesAmended ==
    metadata # None =>
        /\ C8_OtherPauses(metadata[1])
        /\ PauseCount(2000) = IF metadata[1].changes = <<>> THEN 0
                              ELSE Len(metadata[1].changes) - 1
        /\ \A i \in 1..Len(steps) :
             IsPause(steps[i], 2000) => steps[i + 1].type = "SwitchFile"

\* a commit of two files and three hunks has been loaded
C8_Witness ==
    /\ call.op = "load_commit"
    /\ Len(metadata[1].changes) = 2
    /\ HunkCount(metadata[1].changes) = 3
    /\ PauseCount(2000) = 1
    /\ PauseCount(1500) = 3

OnlyLines(change, kind) ==
    /\ change.hunks # <<>>
    /\ \A h \in 1..Len(change.hunks) :
         /\ change.hunks[h].lines # <<>>
         /\ \A i \in 1..Len(change.hunks[h].lines) :
              change.hunks[h].lines[i].change_type = kind

RECURSIVE PatchLines(_, _, _, _)
\* the lines of a hunk from the i-th on, applied at line pos of ls
PatchLines(ls, pos, lines, i) ==
    IF i > Len(lines) THEN ls
    ELSE CASE lines[i].change_type = "Context" -> PatchLines(ls, pos + 1, lines, i + 1)
           [] lines[i].change_type = "Deletion" ->
                PatchLines(SubSeq(ls, 1, pos) \o SubSeq(ls, pos + 2, Len(ls)),
                           pos, lines, i + 1)
           [] lines[i].change_type = "Addition" ->
                PatchLines(SubSeq(ls, 1, pos) \o <<lines[i].content>>
                             \o SubSeq(ls, pos + 1, Len(ls)),
                           pos + 1, lines, i + 1)

NetLines(lines) ==
    Cardinality({i \in 1..Len(lines) : lines[i].change_type = "Addition"})
    - Cardinality({i \in 1..Len(lines) : lines[i].change_type = "Deletion"})

RECURSIVE PatchHunks(_, _, _, _)
\* the hunks from the i-th on, each at its line of the pre-change file moved
\* by the lines the earlier hunks added and removed
PatchHunks(ls, hunks, i, offset) ==
    IF i > Len(hunks) THEN ls
    ELSE PatchHunks(PatchLines(ls, hunks[i].old_start + offset, hunks[i].lines, 1),
                    hunks, i + 1, offset + NetLines(hunks[i].lines))

\* the post-change lines of a file: its hunks applied to the lines the
\* buffer starts with
ExpectedLines(change) ==
    PatchHunks(from_content(unwrap_or_default(change.old_content)).lines,
               change.hunks, 1, 0)

TwoFileCase(m) ==
    /\ Len(m.changes) = 2
    /\ OnlyLines(m.changes[1], "Deletion")
    /\ OnlyLines(m.changes[2], "Addition")

\* C4 as stated: after the playback of a commit of a file with deletions
\* only and a file B with additions only, the buffer holds B's post-change
\* content and the active file index is B's.
C4_TwoFilePlayback ==
    (metadata # None /\ is_finished) =>
        (TwoFileCase(metadata[1]) =>
            /\ buffer.lines = ExpectedLines(metadata[1].changes[2])
            /\ current_file_index = 1)

OneAdditionCase(m) ==
    /\ Len(m.changes) = 1
    /\ Len(m.changes[1].hunks) = 1
    /\ Len(m.changes[1].hunks[1].lines) = 1
    /\ m.changes[1].hunks[1].lines[1].change_type = "Addition"

\* C5 as stated: for one file, one hunk and one addition line of text t, the
\* sequence has one insert-line step with empty content followed by one
\* insert-character step per character of t at columns 0, 1, ..., and the
\* playback completes and leaves a line whose text is t.
C5_OneAddition ==
    (metadata # None /\ OneAdditionCase(metadata[1])) =>
        LET hunk == metadata[1].changes[1].hunks[1]
            t == hunk.lines[1].content
            at == hunk.old_start
            i == CHOOSE j \in 1..Len(steps) : steps[j].type = "InsertLine"
        IN /\ KindCount("InsertLine") = 1
           /\ steps[i] = InsertLine(at, <<>>)
           /\ KindCount("InsertChar") = Len(t)
           /\ \A k \in 1..Len(t) : steps[i + k] = InsertChar(at, k - 1, t[k])
           /\ ~aborted
           /\ is_finished => buffer.lines[at + 1] = t

\* C1: a new engine is Idle; load_commit makes it Playing; the engine is
\* finished only once a tick has found every step consumed, and no tick
\* leaves Finished.
C1_StateMachine ==
    /\ call.op = "new" /\ state = "Idle" /\ ~is_finished
    /\ [][/\ call'.op = "load_commit" => state' = "Playing"
          /\ is_finished' => (state' = "Finished" /\ current_step' = Len(steps'))
          /\ (call'.op = "tick" /\ is_finished) => is_finished'
          /\ (~is_finished /\ is_finished') =>
                /\ call'.op = "tick"
                /\ state = "Playing"
                /\ current_step = Len(steps)
          /\ (/\ call'.op = "tick"
              /\ state = "Playing"
              /\ current_step < Len(steps)) => ~is_finished']_vars

\* a tick has finished the playback of a commit of two files
C1_Witness ==
    /\ call.op = "tick"
    /\ is_finished
    /\ Len(metadata[1].changes) = 2
    /\ current_step = Len(steps)
    /\ current_file_index = 1

\* C10: only the driver makes the state Paused; a tick made while Paused
\* changes neither the step cursor, the buffer, the active file index nor
\* the state.
C10_Paused ==
    [][/\ (state' = "Paused" /\ state # "Paused") => call'.op = "toggle_pause"
       /\ (call'.op = "tick" /\ state = "Paused") =>
             /\ current_step' = current_step
             /\ buffer' = buffer
             /\ current_file_index' = current_file_index
             /\ state' = "Paused"]_vars

\* a tick has been made while Paused in mid-playback, with no pause pending
\* and the step interval elapsed
C10_Witness ==
    /\ call.op = "tick"
    /\ state = "Paused"
    /\ current_step > 0
    /\ current_step < Len(steps)
    /\ pause_until = None
    /\ last_update >= speed_ms

----------------------------------------------------------------------------
(* Claims about load_commit *)

\* the buffer a commit's playback starts from: the first file's pre-change
\* content, an empty buffer for a new file or a commit of no file
StartingBuffer(m) ==
    IF m.changes # <<>> /\ m.changes[1].old_content # None
    THEN [lines |-> IF m.changes[1].old_content[1] = <<>> THEN << <<>> >>
                    ELSE str_lines(m.changes[1].old_content[1]),
          cursor_line |-> 0, cursor_col |-> 0, scroll_offset |-> 0]
    ELSE [lines |-> << <<>> >>, cursor_line |-> 0, cursor_col |-> 0,
          scroll_offset |-> 0]

\* C11 as stated: after load_commit, called in any state, the buffer is the
\* first file's starting content, an empty buffer when the commit has no
\* file, the state is Playing and the active file index is 0.
C11_LoadCommit ==
    call.op = "load_commit" =>
        /\ buffer = StartingBuffer(metadata[1])
        /\ state = "Playing"
        /\ current_file_index = 0

\* C12 as stated: after load_commit, whatever preceded it, the step cursor
\* is 0, no step-level pause is pending, the steps are those of the new
\* commit, and the first tick made in state Playing with the step interval
\* elapsed executes the first step of the new sequence.
C12_LoadResets ==
    [][/\ call'.op = "load_commit" =>
            /\ current_step' = 0
            /\ (pause_until' = None \/ pause_until'[1] = 0)
            /\ steps'[1] = (IF metadata'[1].changes = <<>> THEN Pause(3000)
                            ELSE SwitchFile(0, unwrap_or_default(
                                     metadata'[1].changes[1].old_content)))
       /\ (/\ call.op = "load_commit"
           /\ call'.op = "tick"
           /\ state = "Playing"
           /\ last_update >= speed_ms) =>
                /\ call'.arg = <<steps[1]>>
                /\ current_step' = 1]_vars

----------------------------------------------------------------------------
(* Claims about tick *)

\* C13: no tick changes the step sequence; between two load_commit calls the
\* step cursor only advances, by exactly one per executed step, and it never
\* exceeds the length of the sequence.
C13_StepsImmutable ==
    /\ current_step <= Len(steps)
    /\ [][/\ current_step' <= Len(steps')
          /\ call'.op = "tick" =>
                /\ steps' = steps
                /\ current_step' = IF call'.arg # <<>> THEN current_step + 1
                                   ELSE current_step
                /\ call'.arg # <<>> => call'.arg[1] = steps[current_step + 1]
          /\ call'.op # "load_commit" =>
                /\ steps' = steps
                /\ current_step' >= current_step]_vars

\* a tick has executed the last step of a sequence of more than one step
C13_Witness ==
    /\ call.op = "tick"
    /\ call.arg = <<Pause(3000)>>
    /\ current_step = Len(steps)
    /\ current_step > 1
    /\ state = "Playing"

\* C18: on every tick, in every state and whether or not a pause is
\* pending, cursor visibility flips and the blink timer restarts if and only
\* if at least 500 ms have passed since the last blink toggle.
C18_Blink ==
    [][call'.op = "tick" =>
          IF cursor_blink_timer >= 500
          THEN /\ cursor_visible' = ~cursor_visible
               /\ cursor_blink_timer' = 0
          ELSE /\ cursor_visible' = cursor_visible
               /\ cursor_blink_timer' = cursor_blink_timer]_vars

\* a tick made while Paused, with a pause pending, has blinked the cursor
C18_Witness ==
    /\ call.op = "tick"
    /\ call.ret = TRUE
    /\ state = "Paused"
    /\ pause_until # None
    /\ ~cursor_visible
    /\ cursor_blink_timer = 0

\* C19: while the pause of an executed pause step has not elapsed, every
\* tick returns true, executes no step and changes neither the step cursor,
\* the buffer nor the state; the engine becomes Finished only by a tick made
\* after the final 3000 ms pause has been executed and has elapsed.
C19_PausePending ==
    [][/\ (/\ call'.op = "tick"
           /\ pause_until # None
           /\ pause_until[1] > 0) =>
                /\ call'.ret = TRUE
                /\ call'.arg = <<>>
                /\ current_step' = current_step
                /\ buffer' = buffer
                /\ state' = state
       /\ (state' = "Finished" /\ state # "Finished") =>
                /\ call'.op = "tick"
                /\ current_step = Len(steps)
                /\ steps[current_step] = Pause(3000)
                /\ (pause_until = None \/ pause_until[1] = 0)
       /\ (call'.op = "tick" /\ call'.arg = <<Pause(3000)>>) =>
                pause_until' = <<3000>>]_vars

\* a tick made in state Playing part-way through the final pause has
\* returned true and left the playback where it was
C19_Witness ==
    /\ call.op = "tick"
    /\ call.ret = TRUE
    /\ call.arg = <<>>
    /\ state = "Playing"
    /\ current_step = Len(steps)
    /\ pause_until # None
    /\ pause_until[1] > 0
    /\ pause_until[1] < 3000

\* C20: a tick made in state Playing with no pause pending and less than
\* speed_ms elapsed since the last executed step returns false and changes
\* neither the buffer, the step cursor nor the state; a tick executes a step
\* only when at least speed_ms have elapsed since the step before.
C20_Cadence ==
    [][/\ (/\ call'.op = "tick"
           /\ state = "Playing"
           /\ (pause_until = None \/ pause_until[1] = 0)
           /\ last_update < speed_ms) =>
                /\ call'.ret = FALSE
                /\ call'.arg = <<>>
                /\ buffer' = buffer
                /\ current_step' = current_step
                /\ state' = state
       /\ (call'.op = "tick" /\ current_step' # current_step) =>
                last_update >= speed_ms
       /\ (call'.op = "tick" /\ call'.arg # <<>>) => last_update' = 0]_vars

\* a tick made in mid-playback right after an executed step, with no pause
\* pending, has returned false
C20_Witness ==
    /\ call.op = "tick"
    /\ call.ret = FALSE
    /\ state = "Playing"
    /\ speed_ms > 0
    /\ last_update < speed_ms
    /\ pause_until = None
    /\ current_step > 0
    /\ current_step < Len(steps)

----------------------------------------------------------------------------
(* Claims about the highlighter *)

\* the paths the language registry resolves
SupportedPaths == {"main.rs", "app.py"}

\* C14: with no language selected highlight returns no span, whatever the
\* text and its parse; a selection fails exactly for an unsupported path or
\* a grammar or query that tree-sitter rejects, and a failed selection
\* reports failure and leaves no language, no query and no cached parse, so
\* that highlight returns no span after it.
C14_NoLanguage ==
    /\ (call.op = "highlight" /\ highlighter.language = None) => call.ret = <<>>
    /\ call.op = "set_language_from_path" =>
          /\ call.ret = (/\ call.arg[1] \in SupportedPaths
                         /\ call.arg[2]
                         /\ call.arg[3])
          /\ call.ret = TRUE => highlighter.language # None
          /\ call.ret = FALSE =>
                /\ highlighter.language = None
                /\ highlighter.query = None
                /\ highlighter.query_source = None
                /\ highlighter.cached_tree = None
                /\ highlighter.cached_source = <<>>

\* highlight has returned no span for a parse with a classified capture,
\* the parser still holding the grammar of an earlier selection
C14_Witness ==
    /\ call.op = "highlight"
    /\ call.ret = <<>>
    /\ highlighter.language = None
    /\ highlighter.parser # None
    /\ call.arg[2] = Some(<<Capture(<<"comment">>, 0, 1)>>)

\* the capture-name table of the specification
SpecTable ==
    {<<"annotation", "Keyword">>, <<"attribute", "Keyword">>, <<"decorator", "Keyword">>,
     <<"boolean", "Constant">>, <<"character", "String">>, <<"class", "Type">>,
     <<"constructor", "Type">>, <<"enum", "Type">>, <<"interface", "Type">>,
     <<"struct", "Type">>, <<"trait", "Type">>, <<"comment", "Comment">>,
     <<"conditional", "Keyword">>, <<"exception", "Keyword">>, <<"include", "Keyword">>,
     <<"repeat", "Keyword">>, <<"storageclass", "Keyword">>, <<"constant", "Constant">>,
     <<"delimiter", "Punctuation">>, <<"escape", "Operator">>, <<"field", "Property">>,
     <<"float", "Number">>, <<"function", "Function">>, <<"identifier", "Variable">>,
     <<"keyword", "Keyword">>, <<"label", "Label">>, <<"macro", "Function">>,
     <<"method", "Function">>, <<"module", "Type">>, <<"namespace", "Type">>,
     <<"number", "Number">>, <<"operator", "Operator">>, <<"parameter", "Parameter">>,
     <<"property", "Property">>, <<"punctuation", "Punctuation">>,
     <<"regexp", "String">>, <<"special", "Operator">>, <<"string", "String">>,
     <<"tag", "Type">>, <<"text", "String">>, <<"type", "Type">>,
     <<"variable", "Variable">>}

\* the skip set of the specification
SpecSkipSet == {"__name__", "_name", "_op", "_type", "embedded", "none", "spell"}

\* the token type the table gives a capture name by the piece before its
\* first dot, None when it gives none
SpecClass(name) ==
    LET hits == {pair \in SpecTable : name # <<>> /\ pair[1] = name[1]}
    IN IF hits = {} THEN None ELSE Some((CHOOSE pair \in hits : TRUE)[2])

\* how many times x occurs in the sequence s
Occurrences(s, x) == Cardinality({i \in 1..Len(s) : s[i] = x})

\* C15: every capture is classified by its base name through the table,
\* "function.call" giving Function and a name of the skip set or outside the
\* table no span; highlight returns one span per classified capture, with
\* the capture's range, sorted by ascending start offset.
C15_Classification ==
    /\ token_type(base_name(<<"function", Dot, "call">>)) = Some("Function")
    /\ token_type(base_name(<<"embedded">>)) = None
    /\ \A pair \in SpecTable :
         /\ token_type(base_name(<<pair[1]>>)) = Some(pair[2])
         /\ token_type(base_name(<<pair[1], Dot, "call">>)) = Some(pair[2])
         /\ token_type(base_name(<<pair[1], Dot, "call", Dot, "builtin">>)) = Some(pair[2])
    /\ \A skipped \in SpecSkipSet \cup {"todo", "Function", "functions"} :
         /\ token_type(base_name(<<skipped>>)) = None
         /\ token_type(base_name(<<skipped, Dot, "function">>)) = None
    /\ token_type(base_name(<<>>)) = None
    /\ token_type(base_name(<<Dot, "function">>)) = None
    /\ (call.op = "highlight" /\ highlighter.language # None /\ call.arg[2] # None) =>
          LET captures == call.arg[2][1]
              spans == call.ret
              expected == [i \in 1..Len(captures) |->
                             IF SpecClass(captures[i].name) = None THEN None
                             ELSE Some(HighlightSpan(captures[i].start, captures[i].end,
                                                     SpecClass(captures[i].name)[1]))]
          IN /\ \A i \in 1..(Len(spans) - 1) : spans[i].start <= spans[i + 1].start
             /\ Len(spans) = Len(captures) - Occurrences(expected, None)
             /\ \A i \in 1..Len(spans) :
                  Occurrences(spans, spans[i]) = Occurrences(expected, Some(spans[i]))

\* highlight has put a later capture that starts earlier first
C15_Witness ==
    /\ call.op = "highlight"
    /\ call.arg[2] = Some(<<Capture(<<"function", Dot, "call">>, 1, 2),
                            Capture(<<"comment">>, 0, 1)>>)
    /\ call.ret = <<HighlightSpan(0, 1, "Comment"), HighlightSpan(1, 2, "Function")>>

----------------------------------------------------------------------------
(* Claims about the panes *)

RECURSIVE LineText(_)
\* the text of a rendered line: the texts of its spans, in order
LineText(spans) ==
    IF spans = <<>> THEN <<>> ELSE Head(spans).text \o LineText(Tail(spans))

\* the places of the cursor glyphs of a rendered line
CursorSpans(spans) ==
    {i \in 1..Len(spans) : spans[i].style \in {"cursor", "terminal_cursor"}}

\* C16: the terminal pane shows the last content_height lines of the
\* transcript (content_height the region height minus 2), all of them when
\* there are fewer, and one blank line for an empty transcript; a cursor
\* glyph is appended to the last visible line exactly when that line starts
\* with "~ ", the cursor is visible and the terminal pane is active, and to
\* no other line.
C16_TerminalPane ==
    call.op = "draw" =>
        LET content_height == IF call.arg[1] > 2 THEN call.arg[1] - 2 ELSE 0
            n == Len(terminal_lines)
            out == call.ret.terminal
        IN IF n = 0
           THEN /\ Len(out) = 1
                /\ LineText(out[1]) = <<>>
                /\ CursorSpans(out[1]) = {}
           ELSE /\ Len(out) = (IF n < content_height THEN n ELSE content_height)
                /\ \A i \in 1..Len(out) :
                     LET line == terminal_lines[n - Len(out) + i]
                         glyph == /\ i = Len(out)
                                  /\ Len(line) >= 2
                                  /\ line[1] = "~"
                                  /\ line[2] = " "
                                  /\ cursor_visible
                                  /\ active_pane = "Terminal"
                     IN IF glyph
                        THEN /\ Len(out[i]) = 2
                             /\ out[i][1].text = line
                             /\ CursorSpans(out[i]) = {2}
                        ELSE /\ LineText(out[i]) = line
                             /\ CursorSpans(out[i]) = {}

\* a transcript of two command lines has been drawn in full, the cursor
\* after the second line only
C16_Witness ==
    /\ call.op = "draw"
    /\ terminal_lines = << <<"~", " ", "l">>, <<"~", " ", "l">> >>
    /\ Len(call.ret.terminal) = 2
    /\ CursorSpans(call.ret.terminal[1]) = {}
    /\ CursorSpans(call.ret.terminal[2]) = {2}

\* C17 as stated: on the cursor row of the editor pane, the cursor visible
\* and the editor pane active, the text drawn is the line's characters with
\* the character at the cursor's column as the cursor glyph, or, the column
\* at or past the end of the line, the whole line followed by a space glyph.
C17_EditorCursorRow ==
    (/\ call.op = "draw"
     /\ cursor_visible
     /\ active_pane = "Editor"
     /\ buffer.cursor_line - buffer.scroll_offset + 1 \in 1..Len(call.ret.editor)) =>
        LET row == call.ret.editor[buffer.cursor_line - buffer.scroll_offset + 1]
            text == SubSeq(row, 3, Len(row))
            chars == buffer.lines[buffer.cursor_line + 1]
            col == buffer.cursor_col
        IN /\ Cardinality(CursorSpans(text)) = 1
           /\ LET g == CHOOSE i \in CursorSpans(text) : TRUE
              IN IF col < Len(chars)
                 THEN /\ LineText(text) = chars
                      /\ Len(LineText(SubSeq(text, 1, g - 1))) = col
                      /\ text[g].text = <<chars[col + 1]>>
                 ELSE /\ LineText(text) = chars \o <<" ">>
                      /\ g = Len(text)
                      /\ text[g].text = <<" ">>

----------------------------------------------------------------------------
(* Claims about files of several hunks and about the cursor line *)

\* the old lines a hunk spans: its context lines and its deletions
OldSpan(lines) ==
    Cardinality({i \in 1..Len(lines) : lines[i].change_type # "Addition"})

\* the hunks of a file lie in the pre-change file, one after the other
HunksInOrder(change) ==
    LET n == Len(from_content(unwrap_or_default(change.old_content)).lines)
        old == IF change.old_content = None THEN 0 ELSE n
    IN /\ \A h \in 1..Len(change.hunks) :
            change.hunks[h].old_start + OldSpan(change.hunks[h].lines) <= old
       /\ \A h \in 1..(Len(change.hunks) - 1) :
            change.hunks[h].old_start + OldSpan(change.hunks[h].lines)
                <= change.hunks[h + 1].old_start

\* the file whose steps a playback executes last
LastChange(m) == m.changes[Len(m.changes)]

\* C21 as stated: for a file of any number of hunks, each at its line of the
\* pre-change file, the file's steps executed in order on the pre-change
\* content leave the post-change content, also after a hunk that adds or
\* removes lines (read at the end of a playback, on the last file played).
C21_FilePostContent ==
    (/\ metadata # None
     /\ is_finished
     /\ metadata[1].changes # <<>>
     /\ HunksInOrder(LastChange(metadata[1]))) =>
        buffer.lines = ExpectedLines(LastChange(metadata[1]))

\* C22 as stated: after every executed step of a sequence load_commit
\* generated (for hunks lying in their files), the cursor line is the index
\* of an existing buffer line, also right after a delete-line step that
\* removed the last line of the buffer.
C22_CursorOnLine ==
    (/\ call.op = "tick"
     /\ call.arg # <<>>
     /\ ~aborted
     /\ \A f \in 1..Len(metadata[1].changes) :
          HunksInOrder(metadata[1].changes[f])) =>
        buffer.cursor_line < Len(buffer.lines)

----------------------------------------------------------------------------
(* Claims about the frame *)

\* the cursor glyphs of the rendered lines of a pane: row and place
Glyphs(lines) ==
    UNION {{<<r, i>> : i \in CursorSpans(lines[r])} : r \in 1..Len(lines)}

\* C23: a frame holds at most one cursor glyph over both panes; the editor
\* pane draws one only while the editor pane is active, the terminal pane
\* only while the terminal pane is active, and neither draws one while the
\* cursor is in its blink-off phase.
C23_OneCursor ==
    call.op = "draw" =>
        LET e == Glyphs(call.ret.editor)
            t == Glyphs(call.ret.terminal)
        IN /\ Cardinality(e) + Cardinality(t) <= 1
           /\ e # {} => active_pane = "Editor"
           /\ t # {} => active_pane = "Terminal"
           /\ ~cursor_visible => e = {} /\ t = {}

\* a frame with the cursor row in the editor pane and a command as the last
\* line of the transcript, the terminal pane active and the cursor visible:
\* the one glyph is the terminal's
C23_Witness ==
    /\ call.op = "draw"
    /\ active_pane = "Terminal"
    /\ cursor_visible
    /\ buffer.cursor_line - buffer.scroll_offset + 1 \in 1..Len(call.ret.editor)
    /\ Glyphs(call.ret.editor) = {}
    /\ Cardinality(Glyphs(call.ret.terminal)) = 1

----------------------------------------------------------------------------
(* SpecLive: a playback under the driver's loop, which calls tick on every  *)
(* iteration while the clock advances, and writes the state field never     *)

\* commits with no file, a new file of one line of one-byte or of multi-byte
\* text, a deletion, and a file of two hunks
LiveCommits ==
    {Commit(<<>>),
     Commit(<<FileChange(None, <<Hunk(0, <<Addition(<<"a", "a">>)>>)>>)>>),
     Commit(<<FileChange(None, <<Hunk(0, <<Addition(<<"U+00E9", "a">>)>>)>>)>>),
     Commit(<<FileChange(Some(OldText), <<Hunk(1, <<Deletion>>)>>)>>),
     Commit(<<FileChange(Some(OldText), <<Hunk(0, <<Addition(<<"a">>)>>),
                                          Hunk(1, <<Addition(<<>>)>>)>>)>>)}

InitLive == \E speed \in Speeds : New(speed)

\* the clock advances between two iterations of the loop
ClockAdvances == \E dt \in Waits : Elapse(dt)

NextLive ==
    \/ \E m \in LiveCommits : LoadNext(m)
    \/ ClockAdvances
    \/ Tick

\* the loop goes on: tick keeps being called and time keeps passing
DriverLoop == WF_vars(Tick) /\ WF_vars(ClockAdvances)

SpecLive == InitLive /\ [][NextLive]_vars /\ DriverLoop

----------------------------------------------------------------------------
(* Claims about a whole playback *)

\* a tick executes the step at the step cursor and moves the cursor by one
InSequence ==
    (call'.op = "tick" /\ call'.arg # <<>> /\ ~aborted') =>
        /\ current_step < Len(steps)
        /\ call'.arg[1] = steps[current_step + 1]
        /\ current_step' = current_step + 1

\* the tick that ends a playback: every step executed, false returned
LastTick ==
    (state # "Finished" /\ state' = "Finished") =>
        /\ current_step = Len(steps)
        /\ current_step' = current_step
        /\ call' = Called("tick", FALSE, <<>>)

\* C24 as stated: after load_commit of any commit, tick being called again
\* and again while time advances and the state never written from outside,
\* the engine reaches Finished, the steps executed one by one in sequence
\* order, each once, before the tick that sets Finished and returns false.
C24_PlaybackCompletes ==
    /\ [][InSequence /\ LastTick]_vars
    /\ (call.op = "load_commit") ~> is_finished

====
